---- MODULE Spec2Model ----
(***************************************************************************)
(* A model of packages/jest-cli/src/runJest.js: the run controller that    *)
(* discovers tests in every context, orders them, runs them and            *)
(* post-processes the aggregated result.                                   *)
(*                                                                         *)
(* JavaScript values are modelled as strings: "undefined", "null", the     *)
(* tri-state config flags "true"/"false"/"undefined", and opaque tokens    *)
(* for aggregated results and callback return values.  Flags that the code *)
(* only tests for truthiness are BOOLEAN.                                  *)
(***************************************************************************)
EXTENDS Integers, Sequences, FiniteSets, TLC

\* ------------------------------------------------------------------ bounds
MaxContexts == 2     \* at most this many contexts are handed to runJest
MaxTests    == 2     \* a Match Set holds at most this many tests

\* process.cwd(); the rootDir of context i is the directory i (i >= 1)
Cwd == 0

Tri == {"undefined", "true", "false"}

\* a local that holds an object and is not assigned yet
Unset == [unset |-> TRUE]

\* ------------------------------------------------------------------ state
VARIABLES
  pc,                  \* position of runJest's body
  failedAt,            \* stage whose failure rejected runJest, or "none"
  ret,                 \* value runJest resolved with, "pending" before that
  nctx,                \* contexts.length
  argv,                \* the (mutable, shared) argv object
  globalConfigArg,     \* the globalConfig object the caller passed
  globalConfig,        \* the local binding globalConfig (rebound at line 215)
  onComplete,          \* "fn" or "undefined"
  printNoTestsMessage, \* "fn" or "undefined"
  testSelectionConfig, \* const testSelectionConfig (line 176)
  cpc,                 \* per context: position of the async closure of line 180
  cpattern,            \* per context: getTestPaths' local `pattern`
  data,                \* per context: getTestPaths' local `data`
  allTests,            \* let allTests (line 178)
  results,             \* const results (line 226)
  heap,                \* the config objects, by identity
  ctxConfig,           \* per context: the identity of context.config
  searchCalls,         \* per context: patterns given to source.getTestPaths
  searchResults,       \* per context: what source.getTestPaths resolved with
  outputStream,        \* what was written to outputStream
  stdout,              \* what was written to process.stdout / console.log
  files,               \* what was written with fs.writeFileSync
  log                  \* calls runJest's body made after Discover, in order

inputs  == <<nctx, globalConfigArg, onComplete, printNoTestsMessage>>
control == <<pc, failedAt, ret>>
locals  == <<argv, globalConfig, testSelectionConfig, allTests>>
fanout  == <<cpc, cpattern, data, searchCalls, searchResults>>
configs == <<heap, ctxConfig>>
streams == <<outputStream, stdout, files>>
vars    == <<inputs, control, locals, results, fanout, configs, streams, log>>

Contexts == 1..nctx

\* ------------------------------------------------------- collaborators
\* `x || ''` for a string or undefined x
OrEmpty(x) == IF x = "undefined" THEN "" ELSE x

\* getTestPathPattern(argv): the Selection Pattern of an argv
getTestPathPattern(a) ==
  [onlyChanged |-> a.onlyChanged, watch |-> a.watch, watchAll |-> a.watchAll,
   noSCM |-> a.noSCM, input |-> a.testPathPattern,
   testPathPattern |-> a.testPathPattern,
   shouldTreatInputAsPattern |-> FALSE]

\* updateArgv(argv, 'watchAll', {noSCM: true}): switch argv to "run all"
updateArgv(a) ==
  [a EXCEPT !.watch = FALSE, !.watchAll = TRUE, !.onlyChanged = FALSE,
            !.noSCM = TRUE]

\* makeEmptyAggregatedTestResult()
makeEmptyAggregatedTestResult == "empty"

\* what the execution backend may resolve with
RunResults == {"run1", "run2"}

\* what a results processor may return for r: r itself or a new value
ProcessorResults(r) == {r, "processed"}

\* what onComplete may return
CallbackReturns == {"undefined", "cbval"}

\* the Match Sets source.getTestPaths may resolve with for context i: the
\* first k files of the context in discovery order, with or without SCM
MatchSets(i) ==
  {[tests |-> [k \in 1..n |-> [context |-> i, path |-> k]], noSCM |-> s] :
     n \in 0..MaxTests, s \in BOOLEAN}

Reverse(s) == [k \in 1..Len(s) |-> s[Len(s) + 1 - k]]

RotateLeft(s) == IF s = <<>> THEN s ELSE Append(Tail(s), Head(s))

\* the orders sequencer.sort may return for a list (reordering only)
SequencerOrders(s) == {s, Reverse(s), RotateLeft(s)}

\* ------------------------------------------------------------------ Init
\* the config object of context i before the run
ConfigOf(i) ==
  [fields |-> [rootDir |-> i, name |-> i, roots |-> i], frozen |-> TRUE]

\* The flags of a run.  They are varied one group at a time around the
\* default run (no flag set, a completion callback, no hook).
Flags(lt, js, of, oc, w, vb, sl, pr, cb, pnt) ==
  [listTests |-> lt, json |-> js, outputFile |-> of, onlyChanged |-> oc,
   watch |-> w, verbose |-> vb, silent |-> sl, testResultsProcessor |-> pr,
   onComplete |-> cb, printNoTestsMessage |-> pnt]

Fn == {"undefined", "fn"}

CompletionFlags ==
  {Flags(lt, FALSE, "undefined", FALSE, FALSE, "undefined", "undefined", pr,
         cb, pnt) :
     lt \in BOOLEAN, pr \in {"undefined", "processor"}, cb \in Fn, pnt \in Fn}

VerbosityFlags ==
  {Flags(FALSE, FALSE, "undefined", FALSE, FALSE, vb, sl, "undefined", "fn",
         "undefined") : vb \in Tri, sl \in Tri}

OutputFlags ==
  {Flags(FALSE, js, of, FALSE, FALSE, "undefined", "undefined", pr, cb,
         "undefined") :
     js \in BOOLEAN, of \in {"undefined", "file"},
     pr \in {"undefined", "processor"}, cb \in Fn}

SelectionFlags ==
  {Flags(lt, js, "undefined", oc, w, "undefined", "undefined", "undefined",
         "fn", pnt) :
     lt \in BOOLEAN, js \in BOOLEAN, oc \in BOOLEAN, w \in BOOLEAN,
     pnt \in Fn}

RunFlags == CompletionFlags \cup VerbosityFlags \cup OutputFlags
              \cup SelectionFlags

Init ==
  /\ pc = "entry"
  /\ failedAt = "none"
  /\ ret = "pending"
  /\ nctx \in 0..MaxContexts
  /\ \E f \in RunFlags :
       /\ argv = [listTests |-> f.listTests, json |-> f.json,
                  outputFile |-> f.outputFile, onlyChanged |-> f.onlyChanged,
                  watch |-> f.watch, watchAll |-> FALSE, noSCM |-> FALSE,
                  testPathPattern |-> "x"]
       /\ globalConfig = [watch |-> f.watch, verbose |-> f.verbose,
                          silent |-> f.silent,
                          testResultsProcessor |-> f.testResultsProcessor]
       /\ globalConfigArg = globalConfig
       /\ onComplete = f.onComplete
       /\ printNoTestsMessage = f.printNoTestsMessage
  /\ testSelectionConfig = Unset
  /\ cpc = [i \in Contexts |-> "idle"]
  /\ cpattern = [i \in Contexts |-> Unset]
  /\ data = [i \in Contexts |-> Unset]
  /\ allTests = <<>>
  /\ results = "unset"
  /\ heap = [i \in Contexts |-> ConfigOf(i)]
  /\ ctxConfig = [i \in Contexts |-> i]
  /\ searchCalls = [i \in Contexts |-> <<>>]
  /\ searchResults = [i \in Contexts |-> <<>>]
  /\ outputStream = <<>>
  /\ stdout = <<>>
  /\ files = <<>>
  /\ log = <<>>

\* --------------------------------------------------------- Discover stage
\* lines 175-190, up to the first await of every closure: the pattern is
\* computed and every context's first discovery call is issued, in order
Start ==
  /\ pc = "entry"
  /\ testSelectionConfig' = getTestPathPattern(argv)
  /\ cpattern' = [i \in Contexts |-> getTestPathPattern(argv)]
  /\ searchCalls' = [i \in Contexts |-> <<getTestPathPattern(argv)>>]
  /\ cpc' = [i \in Contexts |-> "search1"]
  /\ pc' = "discover"
  /\ UNCHANGED <<inputs, results, failedAt, ret, argv, globalConfig, allTests,
                 data, searchResults, configs, streams, log>>

NoSCMMessage == [text |-> "Jest can only find uncommitted changed files in a git or hg repository"]

\* a variant of FirstSearchResolved without the watch-mode fallback
FirstSearchResolvedNoRetry(i, d) ==
  /\ cpc[i] = "search1"
  /\ data' = [data EXCEPT ![i] = d]
  /\ searchResults' = [searchResults EXCEPT ![i] = Append(@, d)]
  /\ IF Len(d.tests) = 0 /\ cpattern[i].onlyChanged /\ d.noSCM
        /\ ~globalConfig.watch
     THEN outputStream' = Append(outputStream, NoSCMMessage)
     ELSE UNCHANGED outputStream
  /\ cpc' = [cpc EXCEPT ![i] = "returned"]
  /\ UNCHANGED <<inputs, results, control, locals, cpattern, searchCalls,
                 configs, stdout, files, log>>

\* a variant of FirstSearchResolved without the test `!data.tests.length`
FirstSearchResolvedAnyLength(i, d) ==
  /\ cpc[i] = "search1"
  /\ data' = [data EXCEPT ![i] = d]
  /\ searchResults' = [searchResults EXCEPT ![i] = Append(@, d)]
  /\ IF cpattern[i].onlyChanged /\ d.noSCM
     THEN IF globalConfig.watch
          THEN /\ argv' = updateArgv(argv)
               /\ cpattern' = [cpattern EXCEPT ![i] = getTestPathPattern(argv')]
               /\ searchCalls' = [searchCalls EXCEPT
                                    ![i] = Append(@, getTestPathPattern(argv'))]
               /\ cpc' = [cpc EXCEPT ![i] = "search2"]
               /\ UNCHANGED outputStream
          ELSE /\ outputStream' = Append(outputStream, NoSCMMessage)
               /\ cpc' = [cpc EXCEPT ![i] = "returned"]
               /\ UNCHANGED <<argv, cpattern, searchCalls>>
     ELSE /\ cpc' = [cpc EXCEPT ![i] = "returned"]
          /\ UNCHANGED <<argv, cpattern, searchCalls, outputStream>>
  /\ UNCHANGED <<inputs, results, control, globalConfig, testSelectionConfig,
                 allTests, configs, stdout, files, log>>

\* getTestPaths after its first await (lines 110-129)
FirstSearchResolved(i, d) ==
  /\ cpc[i] = "search1"
  /\ data' = [data EXCEPT ![i] = d]
  /\ searchResults' = [searchResults EXCEPT ![i] = Append(@, d)]
  /\ IF Len(d.tests) = 0 /\ cpattern[i].onlyChanged /\ d.noSCM
     THEN IF globalConfig.watch
          THEN /\ argv' = updateArgv(argv)
               /\ cpattern' = [cpattern EXCEPT ![i] = getTestPathPattern(argv')]
               /\ searchCalls' = [searchCalls EXCEPT
                                    ![i] = Append(@, getTestPathPattern(argv'))]
               /\ cpc' = [cpc EXCEPT ![i] = "search2"]
               /\ UNCHANGED outputStream
          ELSE /\ outputStream' = Append(outputStream, NoSCMMessage)
               /\ cpc' = [cpc EXCEPT ![i] = "returned"]
               /\ UNCHANGED <<argv, cpattern, searchCalls>>
     ELSE /\ cpc' = [cpc EXCEPT ![i] = "returned"]
          /\ UNCHANGED <<argv, cpattern, searchCalls, outputStream>>
  /\ UNCHANGED <<inputs, results, control, globalConfig, testSelectionConfig, allTests,
                 configs, stdout, files, log>>

\* a variant of SecondSearchResolved in which the pattern of the second
\* discovery call becomes the pattern of the run
SecondSearchResolvedKeepsPattern(i, d) ==
  /\ cpc[i] = "search2"
  /\ data' = [data EXCEPT ![i] = d]
  /\ searchResults' = [searchResults EXCEPT ![i] = Append(@, d)]
  /\ cpc' = [cpc EXCEPT ![i] = "returned"]
  /\ testSelectionConfig' = cpattern[i]
  /\ UNCHANGED <<inputs, results, control, argv, globalConfig, allTests,
                 cpattern, searchCalls, configs, streams, log>>

\* getTestPaths after its second await (lines 117, 129)
SecondSearchResolved(i, d) ==
  /\ cpc[i] = "search2"
  /\ data' = [data EXCEPT ![i] = d]
  /\ searchResults' = [searchResults EXCEPT ![i] = Append(@, d)]
  /\ cpc' = [cpc EXCEPT ![i] = "returned"]
  /\ UNCHANGED <<inputs, results, control, locals, cpattern, searchCalls, configs,
                 streams, log>>

\* source.getTestPaths rejects (line 110 or 117): getTestPaths and the
\* closure of line 180 reject with it
SearchRejected(i) ==
  /\ cpc[i] \in {"search1", "search2"}
  /\ cpc' = [cpc EXCEPT ![i] = "rejected"]
  /\ UNCHANGED <<inputs, results, control, locals, cpattern, data, searchCalls,
                 searchResults, configs, streams, log>>

\* a variant of ConcatTests that keeps only the last context's tests
ConcatTestsOverwrite(old, tests) == tests

\* allTests.concat(matches.tests) (line 188)
ConcatTests(old, tests) == old \o tests

\* the closure of line 180 after its await (lines 188-189)
Collect(i) ==
  /\ cpc[i] = "returned"
  /\ allTests' = ConcatTests(allTests, data[i].tests)
  /\ cpc' = [cpc EXCEPT ![i] = "done"]
  /\ UNCHANGED <<inputs, results, control, argv, globalConfig, testSelectionConfig,
                 cpattern, data, searchCalls, searchResults, configs, streams,
                 log>>

\* Promise.all rejects as soon as one closure has rejected (lines 179-191),
\* and so does runJest
DiscoverRejected ==
  /\ pc = "discover"
  /\ \E i \in Contexts : cpc[i] = "rejected"
  /\ pc' = "failed"
  /\ failedAt' = "discover"
  /\ UNCHANGED <<inputs, results, ret, locals, fanout, configs, streams, log>>

\* ------------------------------------------------- helpers of the pipeline
\* Object.assign({}, old, new) on the fields of two objects
Assign(old, new) ==
  [k \in DOMAIN old \cup DOMAIN new |->
     IF k \in DOMAIN new THEN new[k] ELSE old[k]]

\* a variant of setConfig that assigns into the existing config objects
setConfigInPlace(h, cc, newConfig) ==
  [heap |-> [id \in 1..Len(h) |->
               IF \E i \in 1..Len(cc) : cc[i] = id
               THEN [h[id] EXCEPT !.fields = Assign(@, newConfig)]
               ELSE h[id]],
   ctxConfig |-> cc]

\* setConfig (lines 30-36): every context gets a new frozen config object;
\* the result is the heap and the contexts' config identities afterwards
setConfig(h, cc, newConfig) ==
  [heap |-> h \o [i \in 1..Len(cc) |->
                    [fields |-> Assign(h[cc[i]].fields, newConfig),
                     frozen |-> TRUE]],
   ctxConfig |-> [i \in 1..Len(cc) |-> Len(h) + i]]

\* a variant of formatTestPathPattern with the two arms of line 45 swapped
formatTestPathPatternSwapped(pattern) ==
  LET testPattern == pattern.testPathPattern
      input == pattern.input
      formattedPattern == "/" \o OrEmpty(testPattern) \o "/"
      formattedInput == IF pattern.shouldTreatInputAsPattern
                        THEN "/" \o OrEmpty(input) \o "/"
                        ELSE "\"" \o OrEmpty(input) \o "\""
  IN IF input = testPattern THEN formattedPattern ELSE formattedInput

\* formatTestPathPattern (lines 38-46)
formatTestPathPattern(pattern) ==
  LET testPattern == pattern.testPathPattern
      input == pattern.input
      formattedPattern == "/" \o OrEmpty(testPattern) \o "/"
      formattedInput == IF pattern.shouldTreatInputAsPattern
                        THEN "/" \o OrEmpty(input) \o "/"
                        ELSE "\"" \o OrEmpty(input) \o "\""
  IN IF input = testPattern THEN formattedInput ELSE formattedPattern

\* getNoTestsFoundMessage (lines 48-100), up to its first line
getNoTestsFoundMessage(trd, pattern) ==
  [text |-> IF pattern.onlyChanged
            THEN "No tests found related to files changed since last commit."
            ELSE "No tests found",
   pattern |-> formatTestPathPattern(pattern)]

\* JSON.stringify(formatTestResults(r))
JsonText(r) == [text |-> "json", of |-> r]

\* a variant of InvokeOnComplete that calls the callback a second time
InvokeOnCompleteTwice(cb, r, cr) ==
  IF cb # "undefined"
  THEN <<[op |-> "onComplete", arg |-> r, ret |-> cr],
         [op |-> "onComplete", arg |-> r, ret |-> cr]>>
  ELSE <<>>

\* `onComplete && onComplete(r)` (lines 153, 197): the calls it makes
InvokeOnComplete(cb, r, cr) ==
  IF cb # "undefined" THEN <<[op |-> "onComplete", arg |-> r, ret |-> cr]>>
  ELSE <<>>

\* a variant of CompletionValue that drops what the callback returned
CompletionValueDropped(cb, cr) == "undefined"

\* `onComplete && onComplete(r)` (line 153): its value
CompletionValue(cb, cr) == IF cb # "undefined" THEN cr ELSE cb

\* a variant of NoTestsCalls that writes the built-in message as well when a
\* hook is supplied
NoTestsCallsBoth(tests, hook, trd, pattern) ==
  IF Len(tests) = 0
  THEN (IF hook # "undefined"
        THEN <<[op |-> "printNoTestsMessage", stream |-> "outputStream",
                testRunData |-> trd, pattern |-> pattern]>>
        ELSE <<>>)
       \o <<[op |-> "log", text |-> getNoTestsFoundMessage(trd, pattern)]>>
  ELSE <<>>

\* the no-tests branch (lines 201-208): the calls it makes
NoTestsCalls(tests, hook, trd, pattern) ==
  IF Len(tests) = 0
  THEN IF hook # "undefined"
       THEN <<[op |-> "printNoTestsMessage", stream |-> "outputStream",
               testRunData |-> trd, pattern |-> pattern]>>
       ELSE <<[op |-> "log", text |-> getNoTestsFoundMessage(trd, pattern)]>>
  ELSE <<>>

\* a variant of AdjustVerbosity that tests for more than one test
AdjustVerbosityWhenMany(gc, tests) ==
  IF Len(tests) > 1 /\ gc.silent # "true" /\ gc.verbose # "false"
  THEN [gc EXCEPT !.verbose = "true"]
  ELSE gc

\* the single-test branch (lines 209-218): the new binding of globalConfig
AdjustVerbosity(gc, tests) ==
  IF Len(tests) = 1 /\ gc.silent # "true" /\ gc.verbose # "false"
  THEN [gc EXCEPT !.verbose = "true"]
  ELSE gc

\* a variant of ListTestsResult that calls the callback without a result
ListTestsResultMissing == "undefined"

\* the value the completion callback gets on the listTests path (line 197)
ListTestsResult == makeEmptyAggregatedTestResult

\* const testRunData (lines 179, 189)
TestRunData == [i \in Contexts |-> [context |-> i, matches |-> data[i]]]

\* allTests.map(test => test.path) (line 196)
ListedPaths(tests) == [k \in 1..Len(tests) |-> tests[k].path]

\* ---------------------------------------------------- after the fan-in
\* a variant of ListTests without the `return null` of line 198, which goes
\* on to call runTests
ListTestsFallsThrough(sorted, cr) ==
  /\ pc = "discover"
  /\ \A i \in Contexts : cpc[i] = "done"
  /\ argv.listTests
  /\ allTests' = sorted
  /\ stdout' = Append(stdout, [text |-> "list", of |-> ListedPaths(sorted)])
  /\ log' = log \o <<[op |-> "sort", tests |-> allTests, ret |-> sorted],
                     [op |-> "console.log", text |-> ListedPaths(sorted)]>>
                \o InvokeOnComplete(onComplete, ListTestsResult, cr)
                \o <<[op |-> "runTests", tests |-> sorted,
                      globalConfig |-> globalConfig,
                      pattern |-> testSelectionConfig,
                      testPathPattern |->
                        formatTestPathPattern(testSelectionConfig),
                      configs |-> ctxConfig]>>
  /\ pc' = "executing"
  /\ UNCHANGED <<inputs, results, failedAt, ret, argv, globalConfig,
                 testSelectionConfig, fanout, configs, outputStream, files>>

\* lines 191-199 with argv.listTests: Promise.all has fulfilled, the list is
\* sorted and printed, the callback is called and runJest returns null
ListTests(sorted, cr) ==
  /\ pc = "discover"
  /\ \A i \in Contexts : cpc[i] = "done"
  /\ argv.listTests
  /\ allTests' = sorted
  /\ stdout' = Append(stdout, [text |-> "list", of |-> ListedPaths(sorted)])
  /\ log' = log \o <<[op |-> "sort", tests |-> allTests, ret |-> sorted],
                     [op |-> "console.log", text |-> ListedPaths(sorted)]>>
                \o InvokeOnComplete(onComplete, ListTestsResult, cr)
  /\ ret' = "null"
  /\ pc' = "done"
  /\ UNCHANGED <<inputs, results, failedAt, argv, globalConfig, testSelectionConfig,
                 fanout, configs, outputStream, files>>

\* a variant of TestsToRun that forgets what sequencer.sort returned
TestsToRunUnsorted(unsorted, sorted) == unsorted

\* the list handed to runTests: allTests after line 193 (lines 193, 232)
TestsToRun(unsorted, sorted) == sorted

\* a variant of Dispatch that goes on as soon as one closure has returned
DispatchEarly(sorted) ==
  /\ pc = "discover"
  /\ \E i \in Contexts : cpc[i] = "done"
  /\ ~argv.listTests
  /\ allTests' = sorted
  /\ LET noTests == NoTestsCalls(sorted, printNoTestsMessage, TestRunData,
                                 testSelectionConfig)
         gc == AdjustVerbosity(globalConfig, sorted)
         sc == setConfig(heap, ctxConfig, [rootDir |-> Cwd])
     IN /\ outputStream' =
             outputStream \o
               [k \in 1..Len(SelectSeq(noTests, LAMBDA e : e.op = "log")) |->
                  SelectSeq(noTests, LAMBDA e : e.op = "log")[k].text]
        /\ globalConfig' = gc
        /\ heap' = sc.heap
        /\ ctxConfig' = sc.ctxConfig
        /\ log' = log \o <<[op |-> "sort", tests |-> allTests, ret |-> sorted]>>
                      \o noTests
                      \o <<[op |-> "setConfig", configs |-> sc.ctxConfig],
                           [op |-> "runTests", tests |-> TestsToRun(allTests, sorted),
                            globalConfig |-> gc,
                            pattern |-> testSelectionConfig,
                            testPathPattern |->
                              formatTestPathPattern(testSelectionConfig),
                            configs |-> sc.ctxConfig]>>
  /\ pc' = "executing"
  /\ UNCHANGED <<inputs, results, failedAt, ret, argv, testSelectionConfig,
                 fanout, stdout, files>>

\* a variant of Dispatch that normalizes the configs only after it has
\* called runTests
DispatchNormalizesLate(sorted) ==
  /\ pc = "discover"
  /\ \A i \in Contexts : cpc[i] = "done"
  /\ ~argv.listTests
  /\ allTests' = sorted
  /\ LET noTests == NoTestsCalls(sorted, printNoTestsMessage, TestRunData,
                                 testSelectionConfig)
         gc == AdjustVerbosity(globalConfig, sorted)
         sc == setConfig(heap, ctxConfig, [rootDir |-> Cwd])
     IN /\ outputStream' =
             outputStream \o
               [k \in 1..Len(SelectSeq(noTests, LAMBDA e : e.op = "log")) |->
                  SelectSeq(noTests, LAMBDA e : e.op = "log")[k].text]
        /\ globalConfig' = gc
        /\ heap' = sc.heap
        /\ ctxConfig' = sc.ctxConfig
        /\ log' = log \o <<[op |-> "sort", tests |-> allTests, ret |-> sorted]>>
                      \o noTests
                      \o <<[op |-> "runTests", tests |-> TestsToRun(allTests, sorted),
                            globalConfig |-> gc,
                            pattern |-> testSelectionConfig,
                            testPathPattern |->
                              formatTestPathPattern(testSelectionConfig),
                            configs |-> ctxConfig],
                           [op |-> "setConfig", configs |-> sc.ctxConfig]>>
  /\ pc' = "executing"
  /\ UNCHANGED <<inputs, results, failedAt, ret, argv, testSelectionConfig,
                 fanout, stdout, files>>

\* lines 191-232 without argv.listTests: Promise.all has fulfilled, the list
\* is sorted, the zero/single branch is taken, the configs are normalized and
\* runTests is called
Dispatch(sorted) ==
  /\ pc = "discover"
  /\ \A i \in Contexts : cpc[i] = "done"
  /\ ~argv.listTests
  /\ allTests' = sorted
  /\ LET noTests == NoTestsCalls(sorted, printNoTestsMessage, TestRunData,
                                 testSelectionConfig)
         gc == AdjustVerbosity(globalConfig, sorted)
         sc == setConfig(heap, ctxConfig, [rootDir |-> Cwd])
     IN /\ outputStream' =
             outputStream \o
               [k \in 1..Len(SelectSeq(noTests, LAMBDA e : e.op = "log")) |->
                  SelectSeq(noTests, LAMBDA e : e.op = "log")[k].text]
        /\ globalConfig' = gc
        /\ heap' = sc.heap
        /\ ctxConfig' = sc.ctxConfig
        /\ log' = log \o <<[op |-> "sort", tests |-> allTests, ret |-> sorted]>>
                      \o noTests
                      \o <<[op |-> "setConfig", configs |-> sc.ctxConfig],
                           [op |-> "runTests", tests |-> TestsToRun(allTests, sorted),
                            globalConfig |-> gc,
                            pattern |-> testSelectionConfig,
                            testPathPattern |->
                              formatTestPathPattern(testSelectionConfig),
                            configs |-> sc.ctxConfig]>>
  /\ pc' = "executing"
  /\ UNCHANGED <<inputs, results, failedAt, ret, argv, testSelectionConfig, fanout,
                 stdout, files>>

\* runTests rejects (line 226), and so does runJest
RunTestsRejected ==
  /\ pc = "executing"
  /\ pc' = "failed"
  /\ failedAt' = "execute"
  /\ UNCHANGED <<inputs, results, ret, locals, fanout, configs, streams, log>>

\* sequencer.cacheResults(allTests, results) (line 234)
CacheResultsCall(tests, r, threw) ==
  [op |-> "cacheResults", tests |-> tests, results |-> r, threw |-> threw]

\* a variant of PersistFailed that swallows the error of cacheResults and
\* completes the run
PersistFailedSwallowed(r) ==
  /\ pc = "executing"
  /\ results' = r
  /\ log' = log \o <<CacheResultsCall(allTests, r, TRUE)>>
                \o InvokeOnComplete(onComplete, r, "undefined")
  /\ ret' = CompletionValue(onComplete, "undefined")
  /\ pc' = "done"
  /\ UNCHANGED <<inputs, failedAt, locals, fanout, configs, streams>>

\* runTests resolves with r and cacheResults throws (lines 226, 234)
PersistFailed(r) ==
  /\ pc = "executing"
  /\ results' = r
  /\ log' = Append(log, CacheResultsCall(allTests, r, TRUE))
  /\ pc' = "failed"
  /\ failedAt' = "persist"
  /\ UNCHANGED <<inputs, ret, locals, fanout, configs, streams>>

\* a variant of processResults that serializes the result it was given and
\* not the one the processor returned
processResultsSerializesRaw(r, options, pr, cr) ==
  LET hasProc == options.testResultsProcessor # "undefined"
      runResults == IF hasProc THEN pr ELSE r
      toFile == options.isJSON /\ options.outputFile # "undefined"
      toStream == options.isJSON /\ options.outputFile = "undefined"
  IN [calls |->
        (IF hasProc THEN <<[op |-> "processor", arg |-> r, ret |-> pr]>>
         ELSE <<>>)
        \o (IF toFile
            THEN <<[op |-> "writeFileSync", text |-> JsonText(r)],
                   [op |-> "stdout", text |-> [text |-> "Test results written to"]]>>
            ELSE <<>>)
        \o (IF toStream
            THEN <<[op |-> "stdout", text |-> JsonText(r)]>>
            ELSE <<>>)
        \o InvokeOnComplete(options.onComplete, runResults, cr),
      files |-> IF toFile THEN <<JsonText(r)>> ELSE <<>>,
      stdout |-> IF toFile THEN <<[text |-> "Test results written to"]>>
                 ELSE IF toStream THEN <<JsonText(r)>> ELSE <<>>,
      ret |-> CompletionValue(options.onComplete, cr)]

\* processResults (lines 132-154): the calls it makes, what it writes and
\* returns; pr is what the processor returns and cr what the callback returns
processResults(r, options, pr, cr) ==
  LET hasProc == options.testResultsProcessor # "undefined"
      runResults == IF hasProc THEN pr ELSE r
      toFile == options.isJSON /\ options.outputFile # "undefined"
      toStream == options.isJSON /\ options.outputFile = "undefined"
  IN [calls |->
        (IF hasProc THEN <<[op |-> "processor", arg |-> r, ret |-> pr]>>
         ELSE <<>>)
        \o (IF toFile
            THEN <<[op |-> "writeFileSync", text |-> JsonText(runResults)],
                   [op |-> "stdout", text |-> [text |-> "Test results written to"]]>>
            ELSE <<>>)
        \o (IF toStream
            THEN <<[op |-> "stdout", text |-> JsonText(runResults)]>>
            ELSE <<>>)
        \o InvokeOnComplete(options.onComplete, runResults, cr),
      files |-> IF toFile THEN <<JsonText(runResults)>> ELSE <<>>,
      stdout |-> IF toFile THEN <<[text |-> "Test results written to"]>>
                 ELSE IF toStream THEN <<JsonText(runResults)>> ELSE <<>>,
      ret |-> CompletionValue(options.onComplete, cr)]

\* the options runJest gives processResults (lines 236-241)
ProcessOptions ==
  [isJSON |-> argv.json, onComplete |-> onComplete,
   outputFile |-> argv.outputFile,
   testResultsProcessor |-> globalConfig.testResultsProcessor]

\* a variant of Finish that persists after post-processing, and persists
\* the processed result
FinishPersistsLast(r, pr, cr) ==
  /\ pc = "executing"
  /\ results' = r
  /\ LET p == processResults(r, ProcessOptions, pr, cr)
     IN /\ log' = log \o p.calls
                       \o <<CacheResultsCall(
                              allTests,
                              IF globalConfig.testResultsProcessor # "undefined"
                              THEN pr ELSE r,
                              FALSE)>>
        /\ files' = files \o p.files
        /\ stdout' = stdout \o p.stdout
        /\ ret' = p.ret
  /\ pc' = "done"
  /\ UNCHANGED <<inputs, failedAt, locals, fanout, configs, outputStream>>

\* a variant of Finish that ends what it writes to process.stdout with a
\* newline
FinishTrailingNewline(r, pr, cr) ==
  /\ pc = "executing"
  /\ results' = r
  /\ LET p == processResults(r, ProcessOptions, pr, cr)
     IN /\ log' = log \o <<CacheResultsCall(allTests, r, FALSE)>> \o p.calls
        /\ files' = files \o p.files
        /\ stdout' = stdout \o p.stdout \o <<[text |-> "\n"]>>
        /\ ret' = p.ret
  /\ pc' = "done"
  /\ UNCHANGED <<inputs, failedAt, locals, fanout, configs, outputStream>>

\* runTests resolves with r, cacheResults returns and processResults runs
\* to its end (lines 226, 234-241)
Finish(r, pr, cr) ==
  /\ pc = "executing"
  /\ results' = r
  /\ LET p == processResults(r, ProcessOptions, pr, cr)
     IN /\ log' = log \o <<CacheResultsCall(allTests, r, FALSE)>> \o p.calls
        /\ files' = files \o p.files
        /\ stdout' = stdout \o p.stdout
        /\ ret' = p.ret
  /\ pc' = "done"
  /\ UNCHANGED <<inputs, failedAt, locals, fanout, configs, outputStream>>

\* runTests resolves with r, cacheResults returns and fs.writeFileSync
\* throws in processResults (lines 141-144)
PostProcessFailed(r, pr) ==
  /\ pc = "executing"
  /\ results' = r
  /\ argv.json /\ argv.outputFile # "undefined"
  /\ log' = log \o <<CacheResultsCall(allTests, r, FALSE)>>
                \o (IF globalConfig.testResultsProcessor # "undefined"
                    THEN <<[op |-> "processor", arg |-> r, ret |-> pr]>>
                    ELSE <<>>)
  /\ pc' = "failed"
  /\ failedAt' = "postprocess"
  /\ UNCHANGED <<inputs, ret, locals, fanout, configs, streams>>

Next ==
  \/ Start
  \/ \E i \in Contexts : \E d \in MatchSets(i) : FirstSearchResolved(i, d)
  \/ \E i \in Contexts : \E d \in MatchSets(i) : SecondSearchResolved(i, d)
  \/ \E i \in Contexts : SearchRejected(i)
  \/ \E i \in Contexts : Collect(i)
  \/ DiscoverRejected
  \/ \E sorted \in SequencerOrders(allTests) :
       \E cr \in CallbackReturns : ListTests(sorted, cr)
  \/ \E sorted \in SequencerOrders(allTests) : Dispatch(sorted)
  \/ RunTestsRejected
  \/ \E r \in RunResults : PersistFailed(r)
  \/ \E r \in RunResults : \E pr \in ProcessorResults(r) :
       \E cr \in CallbackReturns : Finish(r, pr, cr)
  \/ \E r \in RunResults : \E pr \in ProcessorResults(r) :
       PostProcessFailed(r, pr)

Spec == Init /\ [][Next]_vars

\* ------------------------------------------------------------ properties
\* the calls of one operation, in order
Calls(op) == SelectSeq(log, LAMBDA e : e.op = op)

Count(d, s) == Cardinality({k \in 1..Len(s) : s[k] = d})

HasCallback == onComplete # "undefined"

HasProcessor == globalConfig.testResultsProcessor # "undefined"

\* the Aggregated Result after the optional results processor
ProcessedResult ==
  IF HasProcessor THEN Calls("processor")[1].ret ELSE results

\* C1: in a run in which no call fails and a completion callback is
\* supplied, the callback is invoked exactly once: never twice at any point,
\* and once when the run is done, on the listTests path and on the zero-,
\* single- and many-match paths.
C1_CallbackExactlyOnce ==
  /\ Len(Calls("onComplete")) <= 1
  /\ (pc = "done" /\ HasCallback) => Len(Calls("onComplete")) = 1
  /\ (pc # "done") => Len(Calls("onComplete")) = 0

C1_Witness ==
  /\ pc = "done" /\ HasCallback /\ ~argv.listTests
  /\ nctx = 2 /\ Len(allTests) >= 2
  /\ Len(Calls("onComplete")) = 1

\* C2 as claimed: on the listTests path and on a run whose discovery yields
\* zero tests, the callback gets the explicitly empty Aggregated Result.
C2_Original ==
  (pc = "done" /\ HasCallback /\ (argv.listTests \/ Len(allTests) = 0))
    => Calls("onComplete")[1].arg = makeEmptyAggregatedTestResult

\* C2 as amended: on the listTests path the callback gets the explicitly
\* empty Aggregated Result and neither the backend nor the processor is
\* called; on a run without listTests whose discovery yields zero tests the
\* backend is called with the empty list and the callback gets what the
\* backend resolved with, or what the results processor made of it.
C2_Amended ==
  (pc = "done" /\ HasCallback) =>
    IF argv.listTests
    THEN /\ Calls("onComplete")[1].arg = makeEmptyAggregatedTestResult
         /\ Calls("runTests") = <<>>
         /\ Calls("processor") = <<>>
    ELSE Len(allTests) = 0 =>
           /\ Len(Calls("runTests")) = 1
           /\ Calls("runTests")[1].tests = <<>>
           /\ results \in RunResults
           /\ Calls("onComplete")[1].arg = ProcessedResult
           /\ ~HasProcessor => Calls("onComplete")[1].arg = results

C2_Witness ==
  /\ pc = "done" /\ HasCallback /\ ~argv.listTests
  /\ nctx >= 1 /\ Len(allTests) = 0
  /\ Calls("onComplete")[1].arg \in RunResults

\* C3: with argv.listTests, whatever was discovered: the paths of the list
\* the sequencer returned are printed (the empty list when there are none),
\* the callback gets the empty Aggregated Result, runJest returns null, and
\* runTests, cacheResults, the results processor, setConfig and the no-tests
\* hook and message are never used.
C3_ListTests ==
  argv.listTests =>
    /\ \A k \in 1..Len(log) :
         log[k].op \in {"sort", "console.log", "onComplete"}
    /\ ctxConfig = [i \in Contexts |-> i]
    /\ Len(heap) = nctx
    /\ pc # "executing"
    /\ pc = "done" =>
         /\ Len(Calls("sort")) = 1
         /\ stdout = <<[text |-> "list",
                        of |-> [k \in 1..Len(Calls("sort")[1].ret) |->
                                  Calls("sort")[1].ret[k].path]]>>
         /\ HasCallback =>
              Calls("onComplete") =
                <<[op |-> "onComplete",
                   arg |-> makeEmptyAggregatedTestResult,
                   ret |-> Calls("onComplete")[1].ret]>>
         /\ ~HasCallback => Calls("onComplete") = <<>>
         /\ ret = "null"

C3_Witness ==
  /\ pc = "done" /\ argv.listTests /\ nctx >= 1
  /\ allTests = <<>>
  /\ stdout = <<[text |-> "list", of |-> <<>>]>>
  /\ ret = "null"

\* C4 as claimed: runJest returns null on the listTests path, else what the
\* callback returned when there is one, else the processed Aggregated Result.
C4_Original ==
  pc = "done" =>
    ret = IF argv.listTests THEN "null"
          ELSE IF HasCallback THEN Calls("onComplete")[1].ret
          ELSE ProcessedResult

\* C4 as amended: runJest returns null on the listTests path, else what the
\* callback returned when there is one (undefined included), else the
\* absent callback value itself, undefined, and not the Aggregated Result.
C4_Amended ==
  pc = "done" =>
    ret = IF argv.listTests THEN "null"
          ELSE IF HasCallback THEN Calls("onComplete")[1].ret
          ELSE "undefined"

C4_Witness ==
  /\ pc = "done" /\ ~argv.listTests /\ ~HasCallback
  /\ ret = "undefined"
  /\ ProcessedResult # "undefined"

\* what the log may hold once the run has failed at a stage
FailureShape ==
  /\ ret = "pending"
  /\ Calls("onComplete") = <<>>
  /\ Len(Calls("runTests")) <= 1
  /\ Len(Calls("cacheResults")) <= 1
  /\ failedAt = "discover" => log = <<>>
  /\ failedAt = "execute" =>
       /\ log[Len(log)].op = "runTests"
       /\ Calls("cacheResults") = <<>>
       /\ Calls("processor") = <<>>
  /\ failedAt = "persist" =>
       /\ log[Len(log)].op = "cacheResults"
       /\ Calls("processor") = <<>>
       /\ stdout = <<>> /\ files = <<>>

\* C5: when a context's discovery, runTests or cacheResults fails, runJest
\* fails with it: the callback is never invoked, no later stage is entered,
\* the run stays failed and the failed call is not made again.
C5_FailurePropagates ==
  [][/\ (pc' = "failed" /\ failedAt' \in {"discover", "execute", "persist"})
          => FailureShape'
     /\ (pc = "failed") =>
          (pc' = "failed" /\ failedAt' = failedAt /\ log' = log /\ ret' = ret)
     /\ \A k \in 1..Len(log') :
          (log'[k].op = "cacheResults" /\ log'[k].threw) =>
            (pc' = "failed" /\ failedAt' = "persist" /\ k = Len(log'))
     /\ \A i \in Contexts :
          cpc[i] = "rejected" =>
            /\ cpc'[i] = "rejected"
            /\ searchCalls'[i] = searchCalls[i]
            /\ pc' \in {"discover", "failed"}
            /\ failedAt' \in {"none", "discover"}
            /\ log' = <<>>]_vars

C5_Witness ==
  /\ pc = "failed" /\ failedAt = "discover" /\ nctx = 2
  /\ \E i, j \in Contexts : cpc[i] = "rejected" /\ cpc[j] = "done"
  /\ log = <<>> /\ ret = "pending"

\* C6: the list handed to the sequencer holds each test of each context's
\* final Match Set exactly once, whatever the order in which the contexts'
\* discoveries completed and whether or not they took the fallback; while
\* the discoveries run, allTests holds exactly the tests of the contexts
\* that have returned.
C6_MultisetUnion ==
  LET Descriptors ==
        {[context |-> i, path |-> k] : i \in Contexts, k \in 1..MaxTests}
      listed == IF Calls("sort") = <<>> THEN allTests
                ELSE Calls("sort")[1].tests
  IN /\ \A k \in 1..Len(listed) : listed[k] \in Descriptors
     /\ \A d \in Descriptors :
          Count(d, listed) =
            IF cpc[d.context] = "done"
            THEN Count(d, data[d.context].tests)
            ELSE 0

C6_Witness ==
  /\ nctx = 2 /\ Len(Calls("sort")) = 1
  /\ Len(Calls("sort")[1].tests) >= 3
  /\ Calls("sort")[1].tests[1].context = 2
  /\ Len(searchCalls[1]) = 2

\* C7: runTests gets exactly the list sequencer.sort returned, in its order.
C7_RunsSortedList ==
  \A k \in 1..Len(log) :
    log[k].op = "runTests" =>
      /\ Len(Calls("sort")) = 1
      /\ log[k].tests = Calls("sort")[1].ret

C7_Witness ==
  /\ Len(Calls("runTests")) = 1
  /\ Len(Calls("runTests")[1].tests) >= 2
  /\ Calls("sort")[1].ret # Calls("sort")[1].tests
  /\ Calls("runTests")[1].tests = Calls("sort")[1].ret

PostProcessOps == {"processor", "writeFileSync", "stdout", "onComplete"}

\* C8: cacheResults is called with the list runTests was called with and
\* the Aggregated Result runTests resolved with, whatever the processor
\* returns; it is called right after runTests and before any post-processing.
C8_PersistRoundTrip ==
  \A k \in 1..Len(log) :
    log[k].op = "cacheResults" =>
      /\ k > 1 /\ log[k - 1].op = "runTests"
      /\ log[k].tests = log[k - 1].tests
      /\ log[k].results = results
      /\ results \in RunResults
      /\ \A j \in 1..k : log[j].op \notin PostProcessOps

C8_Witness ==
  /\ pc = "done" /\ HasProcessor
  /\ Len(Calls("cacheResults")) = 1
  /\ Len(Calls("cacheResults")[1].tests) >= 2
  /\ Calls("processor")[1].ret # results
  /\ Calls("cacheResults")[1].results = results

\* C9 as claimed: with exactly one test and globalConfig.verbose unset, the
\* backend gets a global config with verbose === true.
C9_Original ==
  \A k \in 1..Len(log) :
    (/\ log[k].op = "runTests"
     /\ Len(log[k].tests) = 1
     /\ globalConfigArg.verbose = "undefined")
      => log[k].globalConfig.verbose = "true"

\* C9 as amended: with exactly one test, globalConfig.verbose unset and
\* globalConfig.silent not true, the backend gets a global config with
\* verbose === true.
C9_Amended ==
  \A k \in 1..Len(log) :
    (/\ log[k].op = "runTests"
     /\ Len(log[k].tests) = 1
     /\ globalConfigArg.verbose = "undefined"
     /\ globalConfigArg.silent # "true")
      => /\ log[k].globalConfig.verbose = "true"
         /\ log[k].globalConfig = [globalConfigArg EXCEPT !.verbose = "true"]

C9_Witness ==
  /\ nctx = 2 /\ Len(Calls("runTests")) = 1
  /\ Len(data[1].tests) = 1 /\ Len(data[2].tests) = 0
  /\ globalConfigArg.verbose = "undefined"
  /\ globalConfigArg.silent = "false"
  /\ Calls("runTests")[1].globalConfig.verbose = "true"

\* C10: the config objects the run started with are never changed; and once
\* runTests is called, whatever the number of contexts and of tests, every
\* context has a new frozen config object of its own, with rootDir the
\* current working directory and every other field as before.
C10_ConfigsReplaced ==
  /\ \A i \in Contexts : heap[i] = ConfigOf(i)
  /\ \A k \in 1..Len(log) :
       log[k].op = "runTests" =>
         /\ log[k].configs = ctxConfig
         /\ \A i \in Contexts :
              /\ ctxConfig[i] \in (nctx + 1)..Len(heap)
              /\ \A j \in Contexts : ctxConfig[j] = ctxConfig[i] => j = i
              /\ heap[ctxConfig[i]].frozen
              /\ DOMAIN heap[ctxConfig[i]].fields = DOMAIN ConfigOf(i).fields
              /\ heap[ctxConfig[i]].fields.rootDir = Cwd
              /\ \A f \in DOMAIN ConfigOf(i).fields \ {"rootDir"} :
                   heap[ctxConfig[i]].fields[f] = ConfigOf(i).fields[f]

C10_Witness ==
  /\ pc = "executing" /\ nctx = 2 /\ allTests = <<>>
  /\ ctxConfig = <<3, 4>>
  /\ heap[3].fields = [rootDir |-> Cwd, name |-> 1, roots |-> 1]
  /\ heap[1].fields.rootDir = 1

\* what was written to outputStream other than the no-SCM message
Diagnostics == SelectSeq(outputStream, LAMBDA m : m # NoSCMMessage)

\* C11: when the sorted list is empty and listTests is not requested, either
\* the hook is called once with the stream, the per-context run data and the
\* pattern and the built-in message is not written, or, without a hook, the
\* built-in message is written once; with a non-empty list, on the listTests
\* path and before the list is sorted, neither happens.
C11_NoTestsDiagnostic ==
  IF Calls("runTests") # <<>> /\ Calls("sort")[1].ret = <<>>
  THEN IF printNoTestsMessage # "undefined"
       THEN /\ Calls("printNoTestsMessage") =
                 <<[op |-> "printNoTestsMessage", stream |-> "outputStream",
                    testRunData |-> TestRunData,
                    pattern |-> testSelectionConfig]>>
            /\ Calls("log") = <<>>
            /\ Diagnostics = <<>>
       ELSE /\ Calls("printNoTestsMessage") = <<>>
            /\ Len(Calls("log")) = 1
            /\ Diagnostics =
                 <<getNoTestsFoundMessage(TestRunData, testSelectionConfig)>>
  ELSE /\ Calls("printNoTestsMessage") = <<>>
       /\ Calls("log") = <<>>
       /\ Diagnostics = <<>>

C11_Witness ==
  /\ nctx = 2 /\ Len(Calls("runTests")) = 1 /\ allTests = <<>>
  /\ printNoTestsMessage = "fn"
  /\ Len(Calls("printNoTestsMessage")) = 1
  /\ outputStream = <<>>

\* C12 as claimed, on the runs that get as far as writing the JSON text:
\* with the JSON flag and no output file, the JSON text is the only thing
\* written to the output stream in the run, also when a no-tests or no-SCM
\* message is emitted.
C12_Original ==
  (pc = "done" /\ argv.json /\ argv.outputFile = "undefined"
     /\ ~argv.listTests) =>
    LET written == outputStream \o stdout
    IN /\ Len(written) = 1
       /\ written[1].text = "json"
       /\ written[1].of = ProcessedResult

\* C12 as amended: with the JSON flag, no output file and no listTests, the
\* JSON text of the processed result is written once, at the end of the run,
\* and is the only thing runJest writes to process.stdout; the no-tests
\* message and the no-SCM message go to the outputStream argument, and no
\* file is written.
C12_Amended ==
  (argv.json /\ argv.outputFile = "undefined" /\ ~argv.listTests) =>
    /\ pc # "done" => stdout = <<>>
    /\ pc = "done" => stdout = <<JsonText(ProcessedResult)>>
    /\ files = <<>>
    /\ \A k \in 1..Len(outputStream) : outputStream[k].text # "json"

C12_Witness ==
  /\ pc = "done" /\ argv.json /\ argv.outputFile = "undefined"
  /\ ~argv.listTests
  /\ Len(outputStream) >= 2
  /\ outputStream[1] = NoSCMMessage
  /\ Diagnostics # <<>>
  /\ stdout = <<JsonText(results)>>

\* C13: the list handed to the sequencer is in context order and, within a
\* context, in that context's discovery order, whatever the order in which
\* the discoveries completed.
C13_ContextOrder ==
  \A k \in 1..Len(log) :
    log[k].op = "sort" =>
      \A p, q \in 1..Len(log[k].tests) :
        p < q =>
          \/ log[k].tests[p].context < log[k].tests[q].context
          \/ /\ log[k].tests[p].context = log[k].tests[q].context
             /\ log[k].tests[p].path < log[k].tests[q].path

\* a context's discovery has settled: getTestPaths has returned or rejected
Settled(i) == cpc[i] \in {"returned", "done", "rejected"}

\* C14 as claimed: runJest leaves Discover, to go on or to fail, only when
\* every context's discovery has settled, and once it has left, no
\* discovery call and no discovery write happens.
C14_Original ==
  [][/\ (pc' \notin {"entry", "discover"}) => \A i \in Contexts : Settled(i)'
     /\ (pc \notin {"entry", "discover"}) =>
          /\ searchCalls' = searchCalls
          /\ searchResults' = searchResults
          /\ outputStream' = outputStream]_vars

\* C14 as amended: runJest goes on from Discover to Sequence only when every
\* context's discovery, fallback included, has fulfilled and its tests are
\* collected, and then no discovery call or write happens any more; it fails
\* in Discover only when some context's discovery has rejected, and then
\* without waiting for the other contexts.
C14_Amended ==
  [][/\ (pc' \notin {"entry", "discover", "failed"}) =>
          \A i \in Contexts : cpc'[i] = "done"
     /\ (pc' = "failed" /\ failedAt' = "discover") =>
          \E i \in Contexts : cpc'[i] = "rejected"
     /\ (pc' = "failed" /\ failedAt' # "discover") =>
          \A i \in Contexts : cpc'[i] = "done"
     /\ (pc \notin {"entry", "discover"} /\ failedAt # "discover") =>
          /\ cpc' = cpc
          /\ data' = data
          /\ searchCalls' = searchCalls
          /\ searchResults' = searchResults
          /\ outputStream' = outputStream]_vars

C14_Witness ==
  /\ pc = "failed" /\ failedAt = "discover" /\ nctx = 2
  /\ cpc[1] = "rejected"
  /\ cpc[2] = "search1"

\* context i's first discovery found no test, with an onlyChanged pattern
\* and no source control
NoSCMCase(i) ==
  /\ Len(searchResults[i]) >= 1
  /\ Len(searchResults[i][1].tests) = 0
  /\ searchResults[i][1].noSCM
  /\ searchCalls[i][1].onlyChanged

\* the combined list before it is sorted
Combined == IF Calls("sort") = <<>> THEN allTests ELSE Calls("sort")[1].tests

\* C15: in watch mode a context in the no-SCM case gets exactly one more
\* discovery call, with a run-all pattern (watchAll, noSCM, not onlyChanged);
\* what that call resolves with is the context's Match Set and what it adds
\* to the combined list, and no no-SCM message is written.  Every other
\* context gets exactly one discovery call.
C15_WatchFallback ==
  /\ globalConfigArg.watch => Count(NoSCMMessage, outputStream) = 0
  /\ \A i \in Contexts :
       IF NoSCMCase(i) /\ globalConfigArg.watch
       THEN /\ Len(searchCalls[i]) = 2
            /\ searchCalls[i][2].watchAll
            /\ searchCalls[i][2].noSCM
            /\ ~searchCalls[i][2].onlyChanged
            /\ ~searchCalls[i][2].watch
            /\ cpc[i] \in {"search2", "returned", "done", "rejected"}
            /\ cpc[i] \in {"returned", "done"} =>
                 /\ Len(searchResults[i]) = 2
                 /\ data[i] = searchResults[i][2]
            /\ cpc[i] = "done" =>
                 \A k \in 1..MaxTests :
                   Count([context |-> i, path |-> k], Combined) =
                     Count([context |-> i, path |-> k],
                           searchResults[i][2].tests)
       ELSE /\ Len(searchCalls[i]) = IF pc = "entry" THEN 0 ELSE 1
            /\ Len(searchResults[i]) <= 1

C15_Witness ==
  /\ nctx = 2 /\ globalConfigArg.watch
  /\ cpc[1] = "done" /\ cpc[2] = "done"
  /\ Len(searchCalls[1]) = 2 /\ Len(searchCalls[2]) = 1
  /\ Len(searchResults[1][2].tests) = 2
  /\ Len(Combined) >= 3
  /\ outputStream = <<>>

\* C16: without watch mode the no-SCM message is written once for each
\* context in the no-SCM case and for no other context; such a context keeps
\* its empty Match Set and gets no second discovery call.
C16_NoSCMMessage ==
  /\ Count(NoSCMMessage, outputStream) =
       Cardinality({i \in Contexts : NoSCMCase(i) /\ ~globalConfigArg.watch})
  /\ \A i \in Contexts :
       (NoSCMCase(i) /\ ~globalConfigArg.watch) =>
         /\ Len(searchCalls[i]) = 1
         /\ Len(searchResults[i]) = 1
         /\ data[i] = searchResults[i][1]
         /\ data[i].tests = <<>>
         /\ cpc[i] \in {"returned", "done"}

C16_Witness ==
  /\ nctx = 2 /\ ~globalConfigArg.watch
  /\ cpc[1] = "done" /\ cpc[2] = "done"
  /\ searchCalls[1][1].onlyChanged
  /\ data[1].tests = <<>> /\ data[1].noSCM
  /\ Len(data[2].tests) = 1 /\ data[2].noSCM
  /\ outputStream = <<NoSCMMessage>>

\* the flags of the run in hand
FlagsOfRun ==
  Flags(argv.listTests, argv.json, argv.outputFile, argv.onlyChanged,
        globalConfigArg.watch, globalConfigArg.verbose,
        globalConfigArg.silent, globalConfigArg.testResultsProcessor,
        onComplete, printNoTestsMessage)

\* the runs that differ in the stages they go through: every combination of
\* processor, JSON, output file and callback, a listTests run, and a
\* watch-mode onlyChanged run with a no-tests hook
StageFlags ==
  OutputFlags \cup
  {Flags(TRUE, FALSE, "undefined", FALSE, FALSE, "undefined", "undefined",
         "undefined", "fn", "undefined"),
   Flags(FALSE, FALSE, "undefined", TRUE, TRUE, "undefined", "undefined",
         "undefined", "fn", "fn")}

StageInit == Init /\ FlagsOfRun \in StageFlags

\* those runs with every enabled step eventually taken: the event loop runs
\* the continuations that are ready and every collaborator call settles
\* (every step changes pc or cpc)
FairSpec == StageInit /\ [][Next]_vars /\ WF_<<pc, cpc>>(Next)

\* the place of a call in the pipeline
StageRank(op) ==
  CASE op = "sort" -> 1
    [] op \in {"printNoTestsMessage", "log", "console.log"} -> 2
    [] op = "setConfig" -> 3
    [] op = "runTests" -> 4
    [] op = "cacheResults" -> 5
    [] op = "processor" -> 6
    [] op = "writeFileSync" -> 7
    [] op = "stdout" -> 8
    [] op = "onComplete" -> 9

\* the calls made so far are in pipeline order, each made at most once and
\* only after every discovery has completed; a run without listTests that is
\* executing or done has made each of the calls before it exactly once
StagesInOrder ==
  /\ \A j, k \in 1..Len(log) :
       j < k => StageRank(log[j].op) < StageRank(log[k].op)
  /\ log # <<>> => /\ log[1].op = "sort"
                   /\ \A i \in Contexts : cpc[i] = "done"
  /\ (pc \in {"executing", "done"} /\ ~argv.listTests) =>
       /\ Len(Calls("sort")) = 1
       /\ Len(Calls("setConfig")) = 1
       /\ Len(Calls("runTests")) = 1
       /\ Calls("runTests")[1].tests = allTests
       /\ Len(Calls("printNoTestsMessage")) + Len(Calls("log")) =
            IF allTests = <<>> THEN 1 ELSE 0
  /\ (pc = "done" /\ ~argv.listTests) =>
       /\ Len(Calls("cacheResults")) = 1
       /\ Len(Calls("processor")) = IF HasProcessor THEN 1 ELSE 0
       /\ Len(Calls("stdout")) = IF argv.json THEN 1 ELSE 0
       /\ Len(Calls("onComplete")) = IF HasCallback THEN 1 ELSE 0
       /\ log[Len(log)].op = IF HasCallback THEN "onComplete"
                             ELSE IF argv.json THEN "stdout"
                             ELSE IF HasProcessor THEN "processor"
                             ELSE "cacheResults"

\* some collaborator call has failed
SomeCallFailed == pc = "failed" \/ \E i \in Contexts : cpc[i] = "rejected"

\* C17: the stages of a run follow one another in the order Discover, sort,
\* no-tests diagnostic, setConfig, runTests, cacheResults, results
\* processor, JSON serialization, completion callback, with no stage
\* repeated; sort, runTests and cacheResults are called once per run without
\* listTests, with zero tests too; and the run reaches Done unless a
\* collaborator call fails.
C17_StraightLine == []StagesInOrder /\ <>(pc = "done" \/ SomeCallFailed)

C17_Witness ==
  /\ pc = "done" /\ ~argv.listTests /\ nctx = 2 /\ allTests = <<>>
  /\ HasCallback /\ argv.json
  /\ Len(log) = 7
  /\ Calls("runTests")[1].tests = <<>>

\* C18: a configured results processor is called once, with the Aggregated
\* Result the backend resolved with and before anything is serialized or the
\* callback is called; what it returns is what is serialized, to the file or
\* to the stream, and what the callback gets.  Without a processor it is the
\* backend's result that is serialized and handed over.
C18_ProcessorResult ==
  /\ pc \notin {"done", "failed"} => Calls("processor") = <<>>
  /\ \A k \in 1..Len(log) :
       log[k].op = "processor" =>
         /\ HasProcessor
         /\ log[k].arg = results
         /\ results \in RunResults
         /\ Len(Calls("processor")) = 1
         /\ \A j \in 1..k :
              log[j].op \notin {"writeFileSync", "stdout", "onComplete"}
  /\ (pc = "done" /\ ~argv.listTests) =>
       /\ Len(Calls("processor")) = IF HasProcessor THEN 1 ELSE 0
       /\ ~HasProcessor => ProcessedResult = results
       /\ files = IF argv.json /\ argv.outputFile # "undefined"
                  THEN <<JsonText(ProcessedResult)>> ELSE <<>>
       /\ (argv.json /\ argv.outputFile = "undefined") =>
            stdout = <<JsonText(ProcessedResult)>>
       /\ \A k \in 1..Len(log) :
            log[k].op = "writeFileSync" =>
              log[k].text = JsonText(ProcessedResult)
       /\ HasCallback => Calls("onComplete")[1].arg = ProcessedResult

C18_Witness ==
  /\ pc = "done" /\ HasProcessor /\ HasCallback
  /\ argv.json /\ argv.outputFile = "file"
  /\ results = "run2"
  /\ Calls("processor")[1].ret = "processed"
  /\ files = <<JsonText("processed")>>
  /\ Calls("onComplete")[1].arg = "processed"

\* ------------------------------------------- formatTestPathPattern alone
\* the texts a pattern's input and testPathPattern take: absent, empty, or
\* one of three strings
PatternTexts == {"undefined", "", "a", "b", "a.*"}

\* the Selection Patterns formatTestPathPattern is applied to
PatternValues ==
  [onlyChanged : BOOLEAN, watch : {FALSE}, watchAll : {FALSE},
   noSCM : {FALSE}, input : PatternTexts, testPathPattern : PatternTexts,
   shouldTreatInputAsPattern : BOOLEAN]

\* a pattern is about to be formatted; no run is under way
FormatInit ==
  /\ pc = "format"
  /\ failedAt = "none"
  /\ ret = "pending"
  /\ nctx = 0
  /\ argv = [listTests |-> FALSE, json |-> FALSE, outputFile |-> "undefined",
             onlyChanged |-> FALSE, watch |-> FALSE, watchAll |-> FALSE,
             noSCM |-> FALSE, testPathPattern |-> "x"]
  /\ globalConfig = [watch |-> FALSE, verbose |-> "undefined",
                     silent |-> "undefined",
                     testResultsProcessor |-> "undefined"]
  /\ globalConfigArg = globalConfig
  /\ onComplete = "undefined"
  /\ printNoTestsMessage = "undefined"
  /\ testSelectionConfig \in PatternValues
  /\ cpc = <<>> /\ cpattern = <<>> /\ data = <<>>
  /\ searchCalls = <<>> /\ searchResults = <<>>
  /\ allTests = <<>>
  /\ results = "unset"
  /\ heap = <<>> /\ ctxConfig = <<>>
  /\ outputStream = <<>> /\ stdout = <<>> /\ files = <<>>
  /\ log = <<>>

\* formatTestPathPattern(pattern) is evaluated (lines 38-46); it assigns
\* nothing but its result
Format ==
  /\ pc = "format"
  /\ ret' = formatTestPathPattern(testSelectionConfig)
  /\ pc' = "formatted"
  /\ UNCHANGED <<inputs, failedAt, locals, results, fanout, configs, streams,
                 log>>

FormatNext == Format

FormatSpec == FormatInit /\ [][FormatNext]_vars

\* a text between two delimiters, the empty text for an absent one
Delimited(open, x, close) ==
  open \o (IF x = "undefined" THEN "" ELSE x) \o close

\* C19: formatTestPathPattern returns the quoted input exactly when input
\* and testPathPattern are the same (both absent included) and the pattern
\* is not flagged shouldTreatInputAsPattern, and /testPathPattern/ in every
\* other case; an absent text is formatted as the empty text.
C19_FormatPattern ==
  pc = "formatted" =>
    LET p == testSelectionConfig
    IN /\ ret = IF p.input = p.testPathPattern
                   /\ ~p.shouldTreatInputAsPattern
                THEN Delimited("\"", p.input, "\"")
                ELSE Delimited("/", p.testPathPattern, "/")
       /\ ret = Delimited("\"", p.input, "\"") <=>
            (p.input = p.testPathPattern /\ ~p.shouldTreatInputAsPattern)

C19_Witness ==
  /\ pc = "formatted"
  /\ testSelectionConfig.input = "undefined"
  /\ testSelectionConfig.testPathPattern = "undefined"
  /\ ~testSelectionConfig.shouldTreatInputAsPattern
  /\ ret = "\"\""

\* every use of a Selection Pattern outside a second discovery call is a use
\* of the run's pattern
UsesRunPattern ==
  /\ \A i \in Contexts :
       /\ Len(searchCalls[i]) >= 1 => searchCalls[i][1] = testSelectionConfig
       /\ Len(searchCalls[i]) = 2 =>
            /\ searchCalls[i][2] # testSelectionConfig
            /\ testSelectionConfig.onlyChanged
  /\ \A k \in 1..Len(log) :
       /\ log[k].op = "printNoTestsMessage" =>
            log[k].pattern = testSelectionConfig
       /\ log[k].op = "log" =>
            log[k].text = getNoTestsFoundMessage(TestRunData,
                                                 testSelectionConfig)
       /\ log[k].op = "runTests" =>
            /\ log[k].pattern = testSelectionConfig
            /\ log[k].testPathPattern =
                 formatTestPathPattern(testSelectionConfig)

\* C20: the Selection Pattern is computed from argv when runJest starts and
\* never assigned again; it is the pattern of every context's first discovery
\* call, of the no-tests hook or message and of the runTests call (as the
\* pattern and, formatted, as testPathPattern).  The run-all pattern of a
\* fallback is another value, given to that context's second discovery call
\* only, so the run's pattern is still the onlyChanged one.
C20_PatternOnce ==
  [][/\ pc = "entry" => testSelectionConfig' = getTestPathPattern(argv)
     /\ pc # "entry" => testSelectionConfig' = testSelectionConfig
     /\ UsesRunPattern']_vars

C20_Witness ==
  /\ nctx = 2
  /\ Len(searchCalls[1]) = 2 /\ Len(searchCalls[2]) = 1
  /\ argv.watchAll /\ ~argv.onlyChanged
  /\ Calls("runTests") # <<>>
  /\ Calls("runTests")[1].pattern.onlyChanged
  /\ ~Calls("runTests")[1].pattern.watchAll
  /\ Calls("runTests")[1].pattern # getTestPathPattern(argv)
====
